---- MODULE Spec2Model ----
(***************************************************************************)
(* Model of web_server_ec2.py: a Flask backend (threaded=True) managing    *)
(* three kinds of background job (scrape, convert, summarize).  Each kind  *)
(* owns an "active" flag, a bounded log buffer and a statistics record.    *)
(*                                                                         *)
(* Threads are modelled with one program position each.  A step is one     *)
(* group of consecutive statements of one thread; steps of different       *)
(* threads interleave freely.  Request handlers are split at every write   *)
(* of a global; workers are split where another thread's write changes     *)
(* what the worker does next.  Timestamps of log entries are omitted.      *)
(***************************************************************************)
EXTENDS Integers, Sequences, FiniteSets, TLC

(***************************************************************************)
(* Bounds of the model.                                                    *)
(***************************************************************************)
MaxHandlers == 2
MaxScrapeHandlers == 1
MaxJobs == 2
MaxRuns == 2
MaxLines == 1
MaxStatLines == 3
MaxClock == 1
MaxCallers == 2
MaxOverflow == 3

(***************************************************************************)
(* Program constants.                                                      *)
(***************************************************************************)
ScrapeLogCap == 500
ConvertLogCap == 200
SummarizeLogCap == 300

None == 0
Handlers == 1 .. MaxHandlers
ScrapeHandlers == 1 .. MaxScrapeHandlers
Jobs == 1 .. MaxJobs
Workers == 1 .. MaxJobs
ConvWorkers == 1 .. MaxRuns
SumWorkers == 1 .. MaxRuns
Callers == 1 .. MaxCallers

(***************************************************************************)
(* Text.  A string the code searches in is a sequence of one-character     *)
(* strings, so that `in`, lower(), upper() and strip() are computed.       *)
(***************************************************************************)
UpperChars == <<"A", "B", "C", "D", "E", "F", "G", "H", "I", "J", "K", "L", "M",
                "N", "O", "P", "Q", "R", "S", "T", "U", "V", "W", "X", "Y", "Z">>
LowerChars == <<"a", "b", "c", "d", "e", "f", "g", "h", "i", "j", "k", "l", "m",
                "n", "o", "p", "q", "r", "s", "t", "u", "v", "w", "x", "y", "z">>

LowerChar(c) ==
    IF \E i \in 1 .. 26 : UpperChars[i] = c
    THEN LowerChars[CHOOSE i \in 1 .. 26 : UpperChars[i] = c]
    ELSE c

UpperChar(c) ==
    IF \E i \in 1 .. 26 : LowerChars[i] = c
    THEN UpperChars[CHOOSE i \in 1 .. 26 : LowerChars[i] = c]
    ELSE c

\* str.lower() and str.upper()
Lower(s) == [i \in 1 .. Len(s) |-> LowerChar(s[i])]
Upper(s) == [i \in 1 .. Len(s) |-> UpperChar(s[i])]

\* `sub in s` on strings
Contains(s, sub) ==
    \E i \in 0 .. (Len(s) - Len(sub)) :
        \A k \in 1 .. Len(sub) : s[i + k] = sub[k]

IsSpace(c) == c \in {" ", "\n", "\t", "\r"}

\* str.strip()
Strip(s) ==
    IF \A i \in 1 .. Len(s) : IsSpace(s[i])
    THEN << >>
    ELSE LET a == CHOOSE i \in 1 .. Len(s) :
                      /\ ~IsSpace(s[i])
                      /\ \A k \in 1 .. (i - 1) : IsSpace(s[k])
             b == CHOOSE i \in 1 .. Len(s) :
                      /\ ~IsSpace(s[i])
                      /\ \A k \in (i + 1) .. Len(s) : IsSpace(s[k])
         IN  SubSeq(s, a, b)

\* the literals of _update_stats_from_log and _classify_log_line
KwSavedColon == <<"S", "A", "V", "E", "D", ":">>
KwArticleJson == <<"a", "r", "t", "i", "c", "l", "e", ".", "j", "s", "o", "n">>
KwSuccessSaved == <<"S", "U", "C", "C", "E", "S", "S", ":", " ", "S", "a", "v", "e", "d">>
KwImageJpg == <<"i", "m", "a", "g", "e", ".", "j", "p", "g">>
KwCOMPLETE == <<"C", "O", "M", "P", "L", "E", "T", "E">>
ErrorWords == { <<"e", "r", "r", "o", "r">>,
                <<"f", "a", "i", "l", "e", "d">>,
                <<"e", "x", "c", "e", "p", "t", "i", "o", "n">> }
SuccessWords == { <<"s", "u", "c", "c", "e", "s", "s">>,
                  <<"s", "a", "v", "e", "d">>,
                  <<"c", "o", "m", "p", "l", "e", "t", "e">> }
WarningWords == { <<"w", "a", "r", "n", "i", "n", "g">>,
                  <<"f", "i", "l", "t", "e", "r", "e", "d">> }

(***************************************************************************)
(* Lines the scraper subprocess may print (as readline returns them).      *)
(* A line is named by the string kept in the log; LineChars gives its text.*)
(***************************************************************************)
LineChars(l) ==
    CASE l = "SAVED: a_article.json" ->
            <<"S", "A", "V", "E", "D", ":", " ", "a", "_", "a", "r", "t", "i", "c",
              "l", "e", ".", "j", "s", "o", "n", "\n">>
      [] l = "SUCCESS: Saved a_image.jpg" ->
            <<"S", "U", "C", "C", "E", "S", "S", ":", " ", "S", "a", "v", "e", "d",
              " ", "a", "_", "i", "m", "a", "g", "e", ".", "j", "p", "g", "\n">>
      [] l = "Scrape Complete" ->
            <<"S", "c", "r", "a", "p", "e", " ", "C", "o", "m", "p", "l", "e", "t",
              "e", "\n">>
      [] l = "saved: article.json" ->
            <<"s", "a", "v", "e", "d", ":", " ", "a", "r", "t", "i", "c", "l", "e",
              ".", "j", "s", "o", "n", "\n">>
      [] l = "ERROR: SAVED: article.json failed" ->
            <<"E", "R", "R", "O", "R", ":", " ", "S", "A", "V", "E", "D", ":", " ",
              "a", "r", "t", "i", "c", "l", "e", ".", "j", "s", "o", "n", " ", "f",
              "a", "i", "l", "e", "d", "\n">>
      [] l = "Fetching page" ->
            <<"F", "e", "t", "c", "h", "i", "n", "g", " ", "p", "a", "g", "e", "\n">>
      [] l = "WARNING: filtered" ->
            <<"W", "A", "R", "N", "I", "N", "G", ":", " ", "f", "i", "l", "t", "e",
              "r", "e", "d", "\n">>
      [] l = "SAVED: article.json SUCCESS: Saved image.jpg" ->
            <<"S", "A", "V", "E", "D", ":", " ", "a", "r", "t", "i", "c", "l", "e",
              ".", "j", "s", "o", "n", " ", "S", "U", "C", "C", "E", "S", "S", ":",
              " ", "S", "a", "v", "e", "d", " ", "i", "m", "a", "g", "e", ".", "j",
              "p", "g", "\n">>
      [] l = "Unhandled Exception" ->
            <<"U", "n", "h", "a", "n", "d", "l", "e", "d", " ", "E", "x", "c", "e",
              "p", "t", "i", "o", "n", "\n">>
      [] l = "Download FAILED" ->
            <<"D", "o", "w", "n", "l", "o", "a", "d", " ", "F", "A", "I", "L", "E",
              "D", "\n">>
      [] l = "Warning: saved partially" ->
            <<"W", "a", "r", "n", "i", "n", "g", ":", " ", "s", "a", "v", "e", "d",
              " ", "p", "a", "r", "t", "i", "a", "l", "l", "y", "\n">>
      [] l = "warning: error ignored" ->
            <<"w", "a", "r", "n", "i", "n", "g", ":", " ", "e", "r", "r", "o", "r",
              " ", "i", "g", "n", "o", "r", "e", "d", "\n">>
      [] l = "Filtered 3 links" ->
            <<"F", "i", "l", "t", "e", "r", "e", "d", " ", "3", " ", "l", "i", "n",
              "k", "s", "\n">>
      [] OTHER -> <<"\n">>

\* lines for the classifier: the keywords in either case, alone and combined
ClassifyLines ==
    { "Unhandled Exception", "Download FAILED", "Warning: saved partially",
      "warning: error ignored", "Filtered 3 links", "ERROR: SAVED: article.json failed",
      "WARNING: filtered", "Scrape Complete", "SUCCESS: Saved a_image.jpg",
      "saved: article.json", "Fetching page", "" }

StatLines == { "SAVED: a_article.json", "SUCCESS: Saved a_image.jpg", "Scrape Complete",
              "saved: article.json", "ERROR: SAVED: article.json failed",
              "Fetching page", "WARNING: filtered",
              "SAVED: article.json SUCCESS: Saved image.jpg", "" }


(***************************************************************************)
(* Log buffers.                                                            *)
(***************************************************************************)
LogEntry(message, log_type) == [message |-> message, type |-> log_type]

\* all_logs.append(log_entry)
LogAppend(logs, entry) == Append(logs, entry)

\* if len(all_logs) > cap: all_logs.pop()
LogTrimNewest(logs, cap) ==
    IF Len(logs) > cap THEN SubSeq(logs, 1, Len(logs) - 1) ELSE logs

\* if len(all_logs) > cap: all_logs.pop(0)
LogTrim(logs, cap) == IF Len(logs) > cap THEN Tail(logs) ELSE logs

add_log(logs, message, log_type) ==
    LogTrim(LogAppend(logs, LogEntry(message, log_type)), ScrapeLogCap)

add_conversion_log(logs, message, log_type) ==
    LogTrim(LogAppend(logs, LogEntry(message, log_type)), ConvertLogCap)

add_summarization_log(logs, message, log_type) ==
    LogTrim(LogAppend(logs, LogEntry(message, log_type)), SummarizeLogCap)

(***************************************************************************)
(* LocalScrapingJob._classify_log_line and _update_stats_from_log.         *)
(***************************************************************************)
\* the tests of lines 329 and 327 in the other order
ClassifySuccessFirst(line) ==
    LET line_lower == Lower(line)
    IN  IF \E w \in SuccessWords : Contains(line_lower, w) THEN "success"
        ELSE IF \E w \in ErrorWords : Contains(line_lower, w) THEN "error"
        ELSE IF \E w \in WarningWords : Contains(line_lower, w) THEN "warning"
        ELSE "info"

_classify_log_line(line) ==
    LET line_lower == Lower(line)
    IN  IF \E w \in ErrorWords : Contains(line_lower, w) THEN "error"
        ELSE IF \E w \in SuccessWords : Contains(line_lower, w) THEN "success"
        ELSE IF \E w \in WarningWords : Contains(line_lower, w) THEN "warning"
        ELSE "info"

IsArticleLine(line) == Contains(line, KwSavedColon) /\ Contains(line, KwArticleJson)
IsImageLine(line) == Contains(line, KwSuccessSaved) /\ Contains(line, KwImageJpg)
IsCompleteLine(line) == Contains(Upper(line), KwCOMPLETE)

Min(a, b) == IF a <= b THEN a ELSE b
Max(a, b) == IF a >= b THEN a ELSE b

\* the band without its cap: base + (found / max_articles) * span
BandUncapped(base, span, top, found, max_articles) ==
    base + ((span * found) \div max_articles)

\* int(min(base + (found / max_articles) * span, top)) for max_articles >= 1:
\* the float expression truncates to base + floor(span * found / max_articles)
\* (equal for every max_articles in 1 .. 399 and found in 0 .. 2 * max_articles + 2)
Band(base, span, top, found, max_articles) ==
    Min(base + ((span * found) \div max_articles), top)

\* lines 339-343 with line 343 assigning int(progress) instead of the max
ArticleStepOverwrite(stats, line, max_articles) ==
    IF ~IsArticleLine(line) THEN [stats |-> stats, raised |-> FALSE]
    ELSE LET found == stats.articlesFound + 1
             s1 == [stats EXCEPT !.articlesFound = found, !.articlesSaved = found]
         IN  IF max_articles = 0 THEN [stats |-> s1, raised |-> TRUE]
             ELSE [stats |-> [s1 EXCEPT !.progress =
                                Band(15, 65, 80, found, max_articles)],
                   raised |-> FALSE]

\* lines 339-343; raised: the division by max_articles = 0 at line 342
ArticleStep(stats, line, max_articles) ==
    IF ~IsArticleLine(line) THEN [stats |-> stats, raised |-> FALSE]
    ELSE LET found == stats.articlesFound + 1
             s1 == [stats EXCEPT !.articlesFound = found, !.articlesSaved = found]
         IN  IF max_articles = 0 THEN [stats |-> s1, raised |-> TRUE]
             ELSE [stats |-> [s1 EXCEPT !.progress =
                                Max(s1.progress, Band(15, 65, 80, found, max_articles))],
                   raised |-> FALSE]

\* lines 346-349; raised: the division by max_articles = 0 at line 348
ImageStep(stats, line, max_articles) ==
    IF ~IsImageLine(line) THEN [stats |-> stats, raised |-> FALSE]
    ELSE LET found == stats.imagesFound + 1
             s1 == [stats EXCEPT !.imagesFound = found]
         IN  IF max_articles = 0 THEN [stats |-> s1, raised |-> TRUE]
             ELSE [stats |-> [s1 EXCEPT !.progress =
                                Max(s1.progress, Band(80, 15, 95, found, max_articles))],
                   raised |-> FALSE]

\* lines 352-353
CompleteStep(stats, line) ==
    IF IsCompleteLine(line) THEN [stats EXCEPT !.progress = 100] ELSE stats

\* the statistics after the call and whether it raised (ZeroDivisionError)
_update_stats_from_log(stats, line, max_articles) ==
    LET a == ArticleStep(stats, line, max_articles)
    IN  IF a.raised THEN a
        ELSE LET b == ImageStep(a.stats, line, max_articles)
             IN  IF b.raised THEN b
                 ELSE [stats |-> CompleteStep(b.stats, line), raised |-> FALSE]

(***************************************************************************)
(* State.                                                                  *)
(***************************************************************************)
VARIABLES
    now,                  \* int(time.time()), in seconds
    scraping_active,      \* global, line 40
    current_job,          \* global, line 41: a job, or None
    all_logs,             \* global, line 42
    scraping_stats,       \* global, lines 43-50
    jobs,                 \* the LocalScrapingJob objects created so far
    workers,              \* the threads running _run_scraping
    procs,                \* procs[w]: the subprocess launched by worker w
    handlers,             \* the server's request threads
    conversion_active,    \* global, line 52
    conversion_logs,      \* global, line 53
    conversion_stats,     \* global, line 54
    conv_workers,         \* the threads running _run_conversion
    text_bucket,          \* the keys put into S3_TEXT_BUCKET_NAME
    summarization_active, \* global, line 56
    summarization_logs,   \* global, line 57
    summarization_stats,  \* global, lines 58-61
    sum_workers,          \* the threads running _run_summarization
    summary_bucket,       \* the keys put into S3_SUMMARY_BUCKET_NAME
    listed,               \* the last answer of list_bucket
    callers,              \* the threads inside add_log and its two siblings
    log_calls             \* the number of calls of them since the last clear()

NoSession == -1

InitStats ==
    [articlesFound |-> 0, articlesSaved |-> 0, imagesFound |-> 0,
     progress |-> 0, completed |-> FALSE, sessionId |-> NoSession]

NoJob ==
    [created |-> FALSE, max_articles |-> 0, is_running |-> FALSE,
     process |-> None, session_id |-> NoSession]

NoWorker == [pc |-> "unborn", job |-> None, line |-> "", nlines |-> 0]

NoProc == [state |-> "none", returncode |-> 0]

\* resp: the last response of the thread (HTTP status, 'error' or 'status' of the body)
NoResponse == [status |-> 0, body |-> ""]

IdleHandler == [pc |-> "idle", job |-> None, max |-> 0, resp |-> NoResponse]

scrapeVars == <<scraping_active, current_job, all_logs, scraping_stats, jobs,
                workers, procs>>

convVars == <<conversion_active, conversion_logs, conversion_stats, conv_workers,
              text_bucket>>

sumVars == <<summarization_active, summarization_logs, summarization_stats,
             sum_workers, summary_bucket>>

\* the clock and the calls of the logging functions taken on their own
envVars == <<now, callers, log_calls, listed>>

vars == <<envVars, scrapeVars, handlers, convVars, sumVars>>

NoCaller == [pc |-> "idle", kind |-> "none"]

\* no list_bucket request answered yet
NoListing ==
    [answered |-> FALSE, prefix |-> << >>, CommonPrefixes |-> << >>,
     Contents |-> << >>, folders |-> << >>, files |-> << >>]

NoError == "None"

\* line 54: the record has no 'filesConverted' before the first conversion
InitConversionStats == [completed |-> FALSE, error |-> NoError, targetBucket |-> "None"]

\* line 482
ResetConversionStats ==
    [completed |-> FALSE, error |-> NoError, targetBucket |-> "bockscraper1",
     filesConverted |-> 0]

\* lines 58-61 and 508-511
InitSummarizationStats ==
    [completed |-> FALSE, error |-> NoError, targetBucket |-> "bockscraper2",
     textSummaries |-> 0, imageSummaries |-> 0, totalFolders |-> 0]

NoConvWorker == [pc |-> "unborn", idx |-> 0, files_converted |-> 0]

NoSumWorker == [pc |-> "unborn", idx |-> 0, text_count |-> 0, image_count |-> 0]

Init ==
    /\ now = 0
    /\ scraping_active = FALSE
    /\ current_job = None
    /\ all_logs = << >>
    /\ scraping_stats = InitStats
    /\ jobs = [j \in Jobs |-> NoJob]
    /\ workers = [w \in Workers |-> NoWorker]
    /\ procs = [w \in Workers |-> NoProc]
    /\ handlers = [h \in Handlers |-> IdleHandler]
    /\ conversion_active = FALSE
    /\ conversion_logs = << >>
    /\ conversion_stats = InitConversionStats
    /\ conv_workers = [w \in ConvWorkers |-> NoConvWorker]
    /\ text_bucket = {}
    /\ summarization_active = FALSE
    /\ summarization_logs = << >>
    /\ summarization_stats = InitSummarizationStats
    /\ sum_workers = [w \in SumWorkers |-> NoSumWorker]
    /\ summary_bucket = {}
    /\ callers = [c \in Callers |-> NoCaller]
    /\ listed = NoListing
    /\ log_calls = 0

\* time passes
Tick ==
    /\ now < MaxClock
    /\ now' = now + 1
    /\ UNCHANGED <<callers, log_calls, listed, scrapeVars, handlers, convVars, sumVars>>

(***************************************************************************)
(* POST /start_scraping (lines 364-393), one step per write of a global.   *)
(***************************************************************************)
JobsCreated == {j \in Jobs : jobs[j].created}
WorkersBorn == {w \in Workers : workers[w].pc # "unborn"}

\* start requests accepted whose thread does not exist yet
StartsPending ==
    Cardinality({h \in Handlers :
        handlers[h].pc \in {"reset", "clear", "activate", "create", "launch"}})

\* a further start request fits the objects of the model
CanStart(n) == Cardinality(WorkersBorn) + StartsPending < n

\* the handler returns jsonify(body), status
Respond(h, status, body) ==
    handlers' = [handlers EXCEPT ![h] =
                    [pc |-> "idle", job |-> None, max |-> 0,
                     resp |-> [status |-> status, body |-> body]]]

Goto(h, pc) == handlers' = [handlers EXCEPT ![h].pc = pc]

\* the reset of lines 379-383 done before the check of line 368
StartScrapingRejectActiveAfterReset(h) ==
    /\ handlers[h].pc = "idle"
    /\ scraping_active
    /\ Respond(h, 400, "Scraping already in progress")
    /\ scraping_stats' = InitStats
    /\ all_logs' = << >>
    /\ UNCHANGED <<convVars, sumVars, envVars, scraping_active, current_job, jobs,
                   workers, procs>>

\* lines 368-369: a job is active
StartScrapingRejectActive(h) ==
    /\ handlers[h].pc = "idle"
    /\ scraping_active
    /\ Respond(h, 400, "Scraping already in progress")
    /\ UNCHANGED <<convVars, sumVars, envVars, scrapeVars>>

\* lines 379-383 done before the validation of lines 375-376
StartScrapingRejectNoUrlAfterReset(h) ==
    /\ handlers[h].pc = "idle"
    /\ ~scraping_active
    /\ Respond(h, 400, "URL is required")
    /\ scraping_stats' = InitStats
    /\ all_logs' = << >>
    /\ UNCHANGED <<convVars, sumVars, envVars, scraping_active, current_job, jobs,
                   workers, procs>>

\* lines 371-376: no url in the request
StartScrapingRejectNoUrl(h) ==
    /\ handlers[h].pc = "idle"
    /\ ~scraping_active
    /\ Respond(h, 400, "URL is required")
    /\ UNCHANGED <<convVars, sumVars, envVars, scrapeVars>>

\* lines 368-376 passed with url and maxArticles = max_articles
StartScrapingAccept(h, max_articles) ==
    /\ handlers[h].pc = "idle"
    /\ ~scraping_active
    /\ handlers' = [handlers EXCEPT ![h] =
            [pc |-> "reset", job |-> None, max |-> max_articles, resp |-> NoResponse]]
    /\ UNCHANGED <<convVars, sumVars, envVars, scrapeVars>>

\* lines 379-382
StartScrapingReset(h) ==
    /\ handlers[h].pc = "reset"
    /\ scraping_stats' = InitStats
    /\ Goto(h, "clear")
    /\ UNCHANGED <<convVars, sumVars, envVars, scraping_active, current_job, all_logs, jobs, workers, procs>>

\* line 383
StartScrapingClear(h) ==
    /\ handlers[h].pc = "clear"
    /\ all_logs' = << >>
    /\ Goto(h, "activate")
    /\ UNCHANGED <<convVars, sumVars, envVars, scraping_active, current_job, scraping_stats, jobs, workers,
                   procs>>

\* line 385
StartScrapingActivate(h) ==
    /\ handlers[h].pc = "activate"
    /\ scraping_active' = TRUE
    /\ Goto(h, "create")
    /\ UNCHANGED <<convVars, sumVars, envVars, current_job, all_logs, scraping_stats, jobs, workers, procs>>

\* line 386 and LocalScrapingJob.__init__ (lines 238-245)
StartScrapingCreate(h) ==
    /\ handlers[h].pc = "create"
    /\ LET j == CHOOSE x \in Jobs : ~jobs[x].created /\ \A y \in 1 .. (x - 1) : jobs[y].created
       IN  /\ jobs' = [jobs EXCEPT ![j] =
                  [created |-> TRUE, max_articles |-> handlers[h].max,
                   is_running |-> FALSE, process |-> None, session_id |-> now]]
           /\ current_job' = j
    /\ Goto(h, "launch")
    /\ UNCHANGED <<convVars, sumVars, envVars, scraping_active, all_logs, scraping_stats, workers, procs>>

\* line 387 and LocalScrapingJob.start (lines 247-250), then the response
StartScrapingLaunch(h) ==
    /\ handlers[h].pc = "launch"
    /\ LET w == CHOOSE x \in Workers :
                   /\ workers[x].pc = "unborn"
                   /\ \A y \in 1 .. (x - 1) : workers[y].pc # "unborn"
       IN  /\ jobs' = [jobs EXCEPT ![current_job].is_running = TRUE]
           /\ workers' = [workers EXCEPT ![w] =
                  [pc |-> "start", job |-> current_job, line |-> "", nlines |-> 0]]
    /\ Respond(h, 200, "started")
    /\ UNCHANGED <<convVars, sumVars, envVars, scraping_active, current_job, all_logs, scraping_stats, procs>>

(***************************************************************************)
(* POST /stop_scraping (lines 395-401) and LocalScrapingJob.stop.          *)
(***************************************************************************)
\* line 398: current_job is read once
StopScrapingBegin(h) ==
    /\ handlers[h].pc = "idle"
    /\ handlers' = [handlers EXCEPT ![h] =
            [pc |-> IF current_job # None THEN "stop_flag" ELSE "stop_clear",
             job |-> current_job, max |-> 0, resp |-> NoResponse]]
    /\ UNCHANGED <<convVars, sumVars, envVars, scrapeVars>>

\* line 253
StopFlag(h) ==
    /\ handlers[h].pc = "stop_flag"
    /\ jobs' = [jobs EXCEPT ![handlers[h].job].is_running = FALSE]
    /\ Goto(h, "stop_term")
    /\ UNCHANGED <<convVars, sumVars, envVars, scraping_active, current_job, all_logs, scraping_stats,
                   workers, procs>>

\* lines 254-259: terminate and wait up to 5 s, or kill (forced); nothing is
\* signalled when self.process is None
StopTerminate(h, forced) ==
    /\ handlers[h].pc = "stop_term"
    /\ LET p == jobs[handlers[h].job].process
       IN  procs' = IF p # None /\ procs[p].state = "running"
                    THEN [procs EXCEPT ![p] =
                            [state |-> "exited",
                             returncode |-> IF forced THEN -9 ELSE -15]]
                    ELSE procs
    /\ Goto(h, "stop_clear")
    /\ UNCHANGED <<convVars, sumVars, envVars, scraping_active, current_job, all_logs, scraping_stats,
                   jobs, workers>>

\* lines 400-401 clearing the flags of all three kinds
StopClearAll(h) ==
    /\ handlers[h].pc = "stop_clear"
    /\ scraping_active' = FALSE
    /\ conversion_active' = FALSE
    /\ summarization_active' = FALSE
    /\ Respond(h, 200, "stopped")
    /\ UNCHANGED <<envVars, current_job, all_logs, scraping_stats, jobs, workers,
                   procs, conversion_logs, conversion_stats, conv_workers,
                   text_bucket, summarization_logs, summarization_stats,
                   sum_workers, summary_bucket>>

\* lines 400-401
StopClear(h) ==
    /\ handlers[h].pc = "stop_clear"
    /\ scraping_active' = FALSE
    /\ Respond(h, 200, "stopped")
    /\ UNCHANGED <<convVars, sumVars, envVars, current_job, all_logs, scraping_stats, jobs, workers, procs>>

(***************************************************************************)
(* LocalScrapingJob._run_scraping (lines 261-323), the worker thread.      *)
(***************************************************************************)
At(w, pc) == workers[w].pc = pc

Move(w, pc) == workers' = [workers EXCEPT ![w].pc = pc]

\* lines 265-266
RunStart(w) ==
    /\ At(w, "start")
    /\ all_logs' = add_log(all_logs, "Starting local scraper...", "info")
    /\ scraping_stats' = [scraping_stats EXCEPT !.progress = 10]
    /\ Move(w, "announce")
    /\ UNCHANGED <<convVars, sumVars, envVars, scraping_active, current_job, jobs, procs, handlers>>

\* lines 280-283
RunAnnounce(w) ==
    /\ At(w, "announce")
    /\ all_logs' = add_log(add_log(all_logs, "Scraping N articles from URL", "info"),
                           "Session ID", "info")
    /\ scraping_stats' = [scraping_stats EXCEPT
                             !.progress = 15,
                             !.sessionId = jobs[workers[w].job].session_id]
    /\ Move(w, "popen")
    /\ UNCHANGED <<convVars, sumVars, envVars, scraping_active, current_job, jobs, procs, handlers>>

\* lines 286-295: the subprocess is launched
RunPopen(w) ==
    /\ At(w, "popen")
    /\ procs' = [procs EXCEPT ![w] = [state |-> "running", returncode |-> 0]]
    /\ jobs' = [jobs EXCEPT ![workers[w].job].process = w]
    /\ Move(w, "read")
    /\ UNCHANGED <<convVars, sumVars, envVars, scraping_active, current_job, all_logs, scraping_stats, handlers>>

\* lines 286-295: subprocess.Popen raises (OSError)
RunPopenRaises(w) ==
    /\ At(w, "popen")
    /\ Move(w, "except")
    /\ UNCHANGED <<convVars, sumVars, envVars, scraping_active, current_job, all_logs, scraping_stats, jobs,
                   procs, handlers>>

\* lines 298-300: readline returns a line of the running subprocess
RunReadLine(w, l) ==
    /\ At(w, "read")
    /\ procs[w].state = "running"
    /\ workers' = [workers EXCEPT
                      ![w].pc = IF jobs[workers[w].job].is_running
                                THEN "process" ELSE "wait",
                      ![w].line = IF jobs[workers[w].job].is_running THEN l ELSE "",
                      ![w].nlines = @ + 1]
    /\ UNCHANGED <<convVars, sumVars, envVars, scraping_active, current_job, all_logs, scraping_stats, jobs,
                   procs, handlers>>

\* line 298: readline returns '' once the subprocess has exited
RunReadEOF(w) ==
    /\ At(w, "read")
    /\ procs[w].state = "exited"
    /\ Move(w, "wait")
    /\ UNCHANGED <<convVars, sumVars, envVars, scraping_active, current_job, all_logs, scraping_stats, jobs,
                   procs, handlers>>

\* lines 301-305
RunProcessLine(w) ==
    /\ At(w, "process")
    /\ LET line == Strip(LineChars(workers[w].line))
           r == _update_stats_from_log(scraping_stats, line,
                                       jobs[workers[w].job].max_articles)
       IN  IF line = << >>
           THEN /\ UNCHANGED <<all_logs, scraping_stats>>
                /\ workers' = [workers EXCEPT ![w].pc = "read", ![w].line = ""]
           ELSE /\ all_logs' = add_log(all_logs, workers[w].line,
                                       _classify_log_line(line))
                /\ scraping_stats' = r.stats
                /\ workers' = [workers EXCEPT
                                  ![w].pc = IF r.raised THEN "except" ELSE "read",
                                  ![w].line = ""]
    /\ UNCHANGED <<convVars, sumVars, envVars, scraping_active, current_job, jobs, procs, handlers>>

\* line 307: self.process.wait() returns
RunWait(w) ==
    /\ At(w, "wait")
    /\ procs[jobs[workers[w].job].process].state = "exited"
    /\ Move(w, "check")
    /\ UNCHANGED <<convVars, sumVars, envVars, scraping_active, current_job, all_logs, scraping_stats, jobs,
                   procs, handlers>>

\* line 309
RunCheck(w) ==
    /\ At(w, "check")
    /\ Move(w, IF /\ procs[jobs[workers[w].job].process].returncode = 0
                  /\ jobs[workers[w].job].is_running
               THEN "success" ELSE "failure")
    /\ UNCHANGED <<convVars, sumVars, envVars, scraping_active, current_job, all_logs, scraping_stats, jobs,
                   procs, handlers>>

\* lines 310-313
RunSuccess(w) ==
    /\ At(w, "success")
    /\ all_logs' = add_log(add_log(all_logs, "Scraping completed successfully!",
                                   "success"),
                           "Files uploaded to S3", "success")
    /\ scraping_stats' = [scraping_stats EXCEPT !.progress = 100, !.completed = TRUE]
    /\ Move(w, "finally")
    /\ UNCHANGED <<convVars, sumVars, envVars, scraping_active, current_job, jobs, procs, handlers>>

\* lines 315-316
RunFailure(w) ==
    /\ At(w, "failure")
    /\ all_logs' = add_log(all_logs, "Scraping failed or was stopped", "error")
    /\ scraping_stats' = [scraping_stats EXCEPT !.progress = 0]
    /\ Move(w, "finally")
    /\ UNCHANGED <<convVars, sumVars, envVars, scraping_active, current_job, jobs, procs, handlers>>

\* lines 318-320
RunExcept(w) ==
    /\ At(w, "except")
    /\ all_logs' = add_log(all_logs, "Error: exception", "error")
    /\ scraping_stats' = [scraping_stats EXCEPT !.progress = 0]
    /\ Move(w, "finally")
    /\ UNCHANGED <<convVars, sumVars, envVars, scraping_active, current_job, jobs, procs, handlers>>

\* lines 321-323
RunFinally(w) ==
    /\ At(w, "finally")
    /\ jobs' = [jobs EXCEPT ![workers[w].job].is_running = FALSE]
    /\ scraping_active' = FALSE
    /\ Move(w, "done")
    /\ UNCHANGED <<convVars, sumVars, envVars, current_job, all_logs, scraping_stats, procs, handlers>>

\* the scraper subprocess ends by itself with exit code rc
ProcExit(w, rc) ==
    /\ procs[w].state = "running"
    /\ procs' = [procs EXCEPT ![w] = [state |-> "exited", returncode |-> rc]]
    /\ UNCHANGED <<convVars, sumVars, envVars, scraping_active, current_job, all_logs, scraping_stats, jobs,
                   workers, handlers>>

ExitCodes == {0, 1}

\* the requests of handler thread h, at most n of them accepted
ScrapeRequest(h, n, maxes) ==
    \/ StartScrapingRejectActive(h)
    \/ StartScrapingRejectNoUrl(h)
    \/ \E m \in maxes : CanStart(n) /\ StartScrapingAccept(h, m)
    \/ StartScrapingReset(h)
    \/ StartScrapingClear(h)
    \/ StartScrapingActivate(h)
    \/ StartScrapingCreate(h)
    \/ StartScrapingLaunch(h)
    \/ StopScrapingBegin(h)
    \/ StopFlag(h)
    \/ \E forced \in BOOLEAN : StopTerminate(h, forced)
    \/ StopClear(h)

\* the steps of worker w, which reads at most n lines out of lines
ScrapeWorker(w, n, lines) ==
    \/ RunStart(w)
    \/ RunAnnounce(w)
    \/ RunPopen(w)
    \/ RunPopenRaises(w)
    \/ \E l \in lines : workers[w].nlines < n /\ RunReadLine(w, l)
    \/ RunReadEOF(w)
    \/ RunProcessLine(w)
    \/ RunWait(w)
    \/ RunCheck(w)
    \/ RunSuccess(w)
    \/ RunFailure(w)
    \/ RunExcept(w)
    \/ RunFinally(w)

\* Jobs that overlap: a stopped job and its successor.
NextScrape ==
    \/ \E h \in ScrapeHandlers : ScrapeRequest(h, MaxJobs, {0, 1})
    \/ \E w \in Workers : ScrapeWorker(w, MaxLines, {"SAVED: a_article.json"})
    \/ \E w \in Workers, rc \in ExitCodes : ProcExit(w, rc)

SpecScrape == Init /\ [][NextScrape]_vars

(***************************************************************************)
(* Object keys of the source bucket.                                       *)
(***************************************************************************)
KeyChars(k) ==
    CASE k = "s/a.json" -> <<"s", "/", "a", ".", "j", "s", "o", "n">>
      [] k = "s/a_summary.json" ->
            <<"s", "/", "a", "_", "s", "u", "m", "m", "a", "r", "y", ".", "j", "s",
              "o", "n">>
      [] k = "s/a.JPG" -> <<"s", "/", "a", ".", "J", "P", "G">>
      [] k = "s/b.json" -> <<"s", "/", "b", ".", "j", "s", "o", "n">>
      [] OTHER -> <<"s", "/", "n", "o", "t", "e", "s", ".", "t", "x", "t">>

SfxJson == <<".", "j", "s", "o", "n">>
SfxSummaryJson == <<"_", "s", "u", "m", "m", "a", "r", "y", ".", "j", "s", "o", "n">>
SfxTxt == <<".", "t", "x", "t">>
SfxTextSummaryJson ==
    <<"_", "t", "e", "x", "t", "_", "s", "u", "m", "m", "a", "r", "y", ".", "j", "s",
      "o", "n">>
SfxImageSummaryJson ==
    <<"_", "i", "m", "a", "g", "e", "_", "s", "u", "m", "m", "a", "r", "y", ".", "j",
      "s", "o", "n">>
ImageSuffixes == { <<".", "j", "p", "g">>, <<".", "j", "p", "e", "g">>,
                   <<".", "p", "n", "g">> }

\* str.endswith
EndsWith(s, sfx) ==
    /\ Len(s) >= Len(sfx)
    /\ SubSeq(s, Len(s) - Len(sfx) + 1, Len(s)) = sfx

StartsWithAt(s, i, sub) ==
    /\ i + Len(sub) - 1 <= Len(s)
    /\ SubSeq(s, i, i + Len(sub) - 1) = sub

\* str.replace(old, new), old not empty: every occurrence, left to right
RECURSIVE ReplaceFrom(_, _, _, _)
ReplaceFrom(s, i, old, new) ==
    IF i > Len(s) THEN << >>
    ELSE IF StartsWithAt(s, i, old)
         THEN new \o ReplaceFrom(s, i + Len(old), old, new)
         ELSE <<s[i]>> \o ReplaceFrom(s, i + 1, old, new)

Replace(s, old, new) == ReplaceFrom(s, 1, old, new)

\* key.rsplit('.', 1)[0]
BeforeLastDot(s) ==
    IF \E i \in 1 .. Len(s) : s[i] = "."
    THEN LET d == CHOOSE i \in 1 .. Len(s) :
                      s[i] = "." /\ \A k \in (i + 1) .. Len(s) : s[k] # "."
         IN  SubSeq(s, 1, d - 1)
    ELSE s

\* lines 102 and 174
IsSourceJson(key) == EndsWith(key, SfxJson) /\ ~EndsWith(key, SfxSummaryJson)

\* line 199
IsImageKey(key) == \E sfx \in ImageSuffixes : EndsWith(Lower(key), sfx)

\* what the paginator lists under the session's prefix
Listing == <<"s/a.json", "s/a_summary.json", "s/a.JPG">>
ShortListing == <<"s/a.json">>

(***************************************************************************)
(* POST /convert_to_text (lines 468-488).                                  *)
(***************************************************************************)
ConvWorkersBorn == {w \in ConvWorkers : conv_workers[w].pc # "unborn"}

ConvStartsPending ==
    Cardinality({h \in Handlers :
        handlers[h].pc \in {"c_clear", "c_reset", "c_activate", "c_launch"}})

CanConvert(n) == Cardinality(ConvWorkersBorn) + ConvStartsPending < n

\* lines 472-473
ConvertRejectActive(h) ==
    /\ handlers[h].pc = "idle"
    /\ conversion_active
    /\ Respond(h, 400, "Conversion already in progress")
    /\ UNCHANGED <<envVars, scrapeVars, convVars, sumVars>>

\* lines 475-479: no sourceSession in the request
ConvertRejectNoSession(h) ==
    /\ handlers[h].pc = "idle"
    /\ ~conversion_active
    /\ Respond(h, 400, "sourceSession is required")
    /\ UNCHANGED <<envVars, scrapeVars, convVars, sumVars>>

\* lines 472-479 passed
ConvertAccept(h) ==
    /\ handlers[h].pc = "idle"
    /\ ~conversion_active
    /\ handlers' = [handlers EXCEPT ![h] =
            [pc |-> "c_clear", job |-> None, max |-> 0, resp |-> NoResponse]]
    /\ UNCHANGED <<envVars, scrapeVars, convVars, sumVars>>

\* line 481
ConvertClear(h) ==
    /\ handlers[h].pc = "c_clear"
    /\ conversion_logs' = << >>
    /\ Goto(h, "c_reset")
    /\ UNCHANGED <<envVars, scrapeVars, sumVars, conversion_active, conversion_stats,
                   conv_workers, text_bucket>>

\* line 482
ConvertReset(h) ==
    /\ handlers[h].pc = "c_reset"
    /\ conversion_stats' = ResetConversionStats
    /\ Goto(h, "c_activate")
    /\ UNCHANGED <<envVars, scrapeVars, sumVars, conversion_active, conversion_logs,
                   conv_workers, text_bucket>>

\* line 483
ConvertActivate(h) ==
    /\ handlers[h].pc = "c_activate"
    /\ conversion_active' = TRUE
    /\ Goto(h, "c_launch")
    /\ UNCHANGED <<envVars, scrapeVars, sumVars, conversion_logs, conversion_stats,
                   conv_workers, text_bucket>>

\* lines 485-488: the thread is started and the response returned
ConvertLaunch(h) ==
    /\ handlers[h].pc = "c_launch"
    /\ LET w == CHOOSE x \in ConvWorkers :
                   /\ conv_workers[x].pc = "unborn"
                   /\ \A y \in 1 .. (x - 1) : conv_workers[y].pc # "unborn"
       IN  conv_workers' = [conv_workers EXCEPT ![w] =
                               [pc |-> "start", idx |-> 0, files_converted |-> 0]]
    /\ Respond(h, 200, "started")
    /\ UNCHANGED <<envVars, scrapeVars, sumVars, conversion_active, conversion_logs,
                   conversion_stats, text_bucket>>

(***************************************************************************)
(* _run_conversion (lines 87-137), the worker thread.                      *)
(***************************************************************************)
ConvAt(w, pc) == conv_workers[w].pc = pc

ConvMove(w, pc) == conv_workers' = [conv_workers EXCEPT ![w].pc = pc]

\* line 90
ConvStart(w) ==
    /\ ConvAt(w, "start")
    /\ conversion_logs' = add_conversion_log(conversion_logs, "Starting conversion", "info")
    /\ ConvMove(w, "client")
    /\ UNCHANGED <<envVars, scrapeVars, handlers, sumVars, conversion_active,
                   conversion_stats, text_bucket>>

\* lines 92-98
ConvListing(w) ==
    /\ ConvAt(w, "client")
    /\ conversion_logs' = add_conversion_log(conversion_logs, "Listing files", "info")
    /\ ConvMove(w, "loop")
    /\ UNCHANGED <<envVars, scrapeVars, handlers, sumVars, conversion_active,
                   conversion_stats, text_bucket>>

\* line 92: boto3.client raises
ConvClientRaises(w) ==
    /\ ConvAt(w, "client")
    /\ ConvMove(w, "except")
    /\ UNCHANGED <<envVars, scrapeVars, handlers, sumVars, conversion_active,
                   conversion_logs, conversion_stats, text_bucket>>

\* line 99: the paginator raises while listing
ConvPaginateRaises(w) ==
    /\ ConvAt(w, "loop")
    /\ ConvMove(w, "except")
    /\ UNCHANGED <<envVars, scrapeVars, handlers, sumVars, conversion_active,
                   conversion_logs, conversion_stats, text_bucket>>

ConvOutcomes == {"text", "no text", "raises"}

\* lines 100-127: the next listed object; outcome says what reading it gives
ConvObject(w, listing, outcome) ==
    /\ ConvAt(w, "loop")
    /\ conv_workers[w].idx < Len(listing)
    /\ LET key == listing[conv_workers[w].idx + 1]
           txt_key == Replace(KeyChars(key), SfxJson, SfxTxt)
       IN  IF ~IsSourceJson(KeyChars(key))
           THEN /\ conv_workers' = [conv_workers EXCEPT ![w].idx = @ + 1]
                /\ UNCHANGED <<conversion_logs, text_bucket>>
           ELSE IF outcome = "text"
           THEN /\ text_bucket' = text_bucket \cup {txt_key}
                /\ conv_workers' = [conv_workers EXCEPT ![w].idx = @ + 1,
                                                        ![w].files_converted = @ + 1]
                /\ conversion_logs' =
                       add_conversion_log(conversion_logs, "Converted", "success")
           ELSE IF outcome = "no text"
           THEN /\ conv_workers' = [conv_workers EXCEPT ![w].idx = @ + 1]
                /\ conversion_logs' =
                       add_conversion_log(conversion_logs, "Skipped", "warning")
                /\ UNCHANGED text_bucket
           ELSE /\ conv_workers' = [conv_workers EXCEPT ![w].idx = @ + 1]
                /\ conversion_logs' =
                       add_conversion_log(conversion_logs, "Error converting", "error")
                /\ UNCHANGED text_bucket
    /\ UNCHANGED <<envVars, scrapeVars, handlers, sumVars, conversion_active,
                   conversion_stats>>

\* lines 129-131
ConvComplete(w, listing) ==
    /\ ConvAt(w, "loop")
    /\ conv_workers[w].idx = Len(listing)
    /\ conversion_stats' = [conversion_stats EXCEPT
                               !.filesConverted = conv_workers[w].files_converted,
                               !.completed = TRUE]
    /\ conversion_logs' =
           add_conversion_log(conversion_logs, "Conversion complete!", "success")
    /\ ConvMove(w, "finally")
    /\ UNCHANGED <<envVars, scrapeVars, handlers, sumVars, conversion_active, text_bucket>>

\* lines 133-135
ConvExcept(w) ==
    /\ ConvAt(w, "except")
    /\ conversion_stats' = [conversion_stats EXCEPT !.error = "exception"]
    /\ conversion_logs' =
           add_conversion_log(conversion_logs, "Conversion failed", "error")
    /\ ConvMove(w, "finally")
    /\ UNCHANGED <<envVars, scrapeVars, handlers, sumVars, conversion_active, text_bucket>>

\* lines 136-137
ConvFinally(w) ==
    /\ ConvAt(w, "finally")
    /\ conversion_active' = FALSE
    /\ ConvMove(w, "done")
    /\ UNCHANGED <<envVars, scrapeVars, handlers, sumVars, conversion_logs,
                   conversion_stats, text_bucket>>

ConvertRequest(h, n) ==
    \/ ConvertRejectActive(h)
    \/ ConvertRejectNoSession(h)
    \/ CanConvert(n) /\ ConvertAccept(h)
    \/ ConvertClear(h)
    \/ ConvertReset(h)
    \/ ConvertActivate(h)
    \/ ConvertLaunch(h)

ConvWorker(w, listing) ==
    \/ ConvStart(w)
    \/ ConvListing(w)
    \/ ConvClientRaises(w)
    \/ ConvPaginateRaises(w)
    \/ \E o \in ConvOutcomes : ConvObject(w, listing, o)
    \/ ConvComplete(w, listing)
    \/ ConvExcept(w)
    \/ ConvFinally(w)

NextConvert ==
    \/ \E h \in Handlers : ConvertRequest(h, MaxRuns)
    \/ \E w \in ConvWorkers : ConvWorker(w, ShortListing)

SpecConvert == Init /\ [][NextConvert]_vars

(***************************************************************************)
(* POST /generate_summaries (lines 494-517).                               *)
(***************************************************************************)
SumWorkersBorn == {w \in SumWorkers : sum_workers[w].pc # "unborn"}

SumStartsPending ==
    Cardinality({h \in Handlers :
        handlers[h].pc \in {"s_clear", "s_reset", "s_activate", "s_launch"}})

CanSummarize(n) == Cardinality(SumWorkersBorn) + SumStartsPending < n

\* lines 498-499
SummariesRejectActive(h) ==
    /\ handlers[h].pc = "idle"
    /\ summarization_active
    /\ Respond(h, 400, "Summarization already in progress")
    /\ UNCHANGED <<envVars, scrapeVars, convVars, sumVars>>

\* lines 501-505: no sourceSession in the request
SummariesRejectNoSession(h) ==
    /\ handlers[h].pc = "idle"
    /\ ~summarization_active
    /\ Respond(h, 400, "sourceSession is required")
    /\ UNCHANGED <<envVars, scrapeVars, convVars, sumVars>>

\* lines 498-505 passed
SummariesAccept(h) ==
    /\ handlers[h].pc = "idle"
    /\ ~summarization_active
    /\ handlers' = [handlers EXCEPT ![h] =
            [pc |-> "s_clear", job |-> None, max |-> 0, resp |-> NoResponse]]
    /\ UNCHANGED <<envVars, scrapeVars, convVars, sumVars>>

\* line 507
SummariesClear(h) ==
    /\ handlers[h].pc = "s_clear"
    /\ summarization_logs' = << >>
    /\ Goto(h, "s_reset")
    /\ UNCHANGED <<envVars, scrapeVars, convVars, summarization_active,
                   summarization_stats, sum_workers, summary_bucket>>

\* lines 508-511
SummariesReset(h) ==
    /\ handlers[h].pc = "s_reset"
    /\ summarization_stats' = InitSummarizationStats
    /\ Goto(h, "s_activate")
    /\ UNCHANGED <<envVars, scrapeVars, convVars, summarization_active,
                   summarization_logs, sum_workers, summary_bucket>>

\* line 512
SummariesActivate(h) ==
    /\ handlers[h].pc = "s_activate"
    /\ summarization_active' = TRUE
    /\ Goto(h, "s_launch")
    /\ UNCHANGED <<envVars, scrapeVars, convVars, summarization_logs,
                   summarization_stats, sum_workers, summary_bucket>>

\* lines 514-517: the thread is started and the response returned
SummariesLaunch(h) ==
    /\ handlers[h].pc = "s_launch"
    /\ LET w == CHOOSE x \in SumWorkers :
                   /\ sum_workers[x].pc = "unborn"
                   /\ \A y \in 1 .. (x - 1) : sum_workers[y].pc # "unborn"
       IN  sum_workers' = [sum_workers EXCEPT ![w] =
                [pc |-> "start", idx |-> 0, text_count |-> 0, image_count |-> 0]]
    /\ Respond(h, 200, "started")
    /\ UNCHANGED <<envVars, scrapeVars, convVars, summarization_active,
                   summarization_logs, summarization_stats, summary_bucket>>

(***************************************************************************)
(* _run_summarization (lines 139-234), the worker thread.                  *)
(***************************************************************************)
SumAt(w, pc) == sum_workers[w].pc = pc

SumMove(w, pc) == sum_workers' = [sum_workers EXCEPT ![w].pc = pc]

\* line 142
SumStart(w) ==
    /\ SumAt(w, "start")
    /\ summarization_logs' =
           add_summarization_log(summarization_logs, "Starting AI summarization", "info")
    /\ SumMove(w, "setup")
    /\ UNCHANGED <<envVars, scrapeVars, handlers, convVars, summarization_active,
                   summarization_stats, summary_bucket>>

SetupOutcomes == {"ok", "client", "import", "text model", "image model"}

\* the entries lines 147-163 add before the call that raises (none raises: "ok")
SumSetupLogs(logs, outcome) ==
    LET l1 == add_summarization_log(logs, "Listing files", "info")
        l2 == add_summarization_log(l1, "AI libraries loaded successfully", "info")
        l3 == add_summarization_log(l2, "Loading text summarization model", "info")
        l4 == add_summarization_log(l3, "Loading image captioning model", "info")
    IN  CASE outcome = "client" -> logs
          [] outcome = "import" -> l1
          [] outcome = "text model" -> l3
          [] OTHER -> l4

\* lines 144-167: the client, the imports (an ImportError is raised again as
\* Exception, line 158) and the two models; outcome names the call that raises
SumSetup(w, outcome) ==
    /\ SumAt(w, "setup")
    /\ summarization_logs' = SumSetupLogs(summarization_logs, outcome)
    /\ SumMove(w, IF outcome = "ok" THEN "loop" ELSE "except")
    /\ UNCHANGED <<envVars, scrapeVars, handlers, convVars, summarization_active,
                   summarization_stats, summary_bucket>>

\* line 169: the paginator raises while listing
SumPaginateRaises(w) ==
    /\ SumAt(w, "loop")
    /\ SumMove(w, "except")
    /\ UNCHANGED <<envVars, scrapeVars, handlers, convVars, summarization_active,
                   summarization_logs, summarization_stats, summary_bucket>>

SumOutcomes == {"ok", "short", "raises early", "raises late"}

\* lines 174-196: a source JSON object
SumJsonLogs(logs, outcome) ==
    IF outcome = "ok"
    THEN add_summarization_log(
             add_summarization_log(logs, "Summarizing text", "info"),
             "Text summary saved", "success")
    ELSE IF outcome = "short" THEN logs
    ELSE IF outcome = "raises early"
    THEN add_summarization_log(logs, "Error summarizing", "error")
    ELSE add_summarization_log(
             add_summarization_log(logs, "Summarizing text", "info"),
             "Error summarizing", "error")

\* lines 199-223: an image object
SumImageLogs(logs, outcome) ==
    IF outcome = "ok"
    THEN add_summarization_log(
             add_summarization_log(logs, "Captioning image", "info"),
             "Image caption saved", "success")
    ELSE add_summarization_log(
             add_summarization_log(logs, "Captioning image", "info"),
             "Error captioning", "error")

\* lines 170-223: the next listed object; outcome says what processing it gives
SumObject(w, listing, outcome) ==
    /\ SumAt(w, "loop")
    /\ sum_workers[w].idx < Len(listing)
    /\ LET key == KeyChars(listing[sum_workers[w].idx + 1])
           summary_key == Replace(key, SfxJson, SfxTextSummaryJson)
           caption_key == BeforeLastDot(key) \o SfxImageSummaryJson
       IN  IF IsSourceJson(key)
           THEN /\ summarization_logs' = SumJsonLogs(summarization_logs, outcome)
                /\ summary_bucket' = IF outcome = "ok"
                                     THEN summary_bucket \cup {summary_key}
                                     ELSE summary_bucket
                /\ sum_workers' = [sum_workers EXCEPT
                       ![w].idx = @ + 1,
                       ![w].text_count = IF outcome = "ok" THEN @ + 1 ELSE @]
           ELSE IF IsImageKey(key)
           THEN /\ summarization_logs' = SumImageLogs(summarization_logs, outcome)
                /\ summary_bucket' = IF outcome = "ok"
                                     THEN summary_bucket \cup {caption_key}
                                     ELSE summary_bucket
                /\ sum_workers' = [sum_workers EXCEPT
                       ![w].idx = @ + 1,
                       ![w].image_count = IF outcome = "ok" THEN @ + 1 ELSE @]
           ELSE /\ sum_workers' = [sum_workers EXCEPT ![w].idx = @ + 1]
                /\ UNCHANGED <<summarization_logs, summary_bucket>>
    /\ UNCHANGED <<envVars, scrapeVars, handlers, convVars, summarization_active,
                   summarization_stats>>

\* lines 225-228
SumComplete(w, listing) ==
    /\ SumAt(w, "loop")
    /\ sum_workers[w].idx = Len(listing)
    /\ summarization_stats' = [summarization_stats EXCEPT
                                  !.textSummaries = sum_workers[w].text_count,
                                  !.imageSummaries = sum_workers[w].image_count,
                                  !.completed = TRUE]
    /\ summarization_logs' =
           add_summarization_log(summarization_logs, "Complete!", "success")
    /\ SumMove(w, "finally")
    /\ UNCHANGED <<envVars, scrapeVars, handlers, convVars, summarization_active,
                   summary_bucket>>

\* lines 230-232
SumExcept(w) ==
    /\ SumAt(w, "except")
    /\ summarization_stats' = [summarization_stats EXCEPT !.error = "exception"]
    /\ summarization_logs' =
           add_summarization_log(summarization_logs, "Summarization failed", "error")
    /\ SumMove(w, "finally")
    /\ UNCHANGED <<envVars, scrapeVars, handlers, convVars, summarization_active,
                   summary_bucket>>

\* lines 233-234
SumFinally(w) ==
    /\ SumAt(w, "finally")
    /\ summarization_active' = FALSE
    /\ SumMove(w, "done")
    /\ UNCHANGED <<envVars, scrapeVars, handlers, convVars, summarization_logs,
                   summarization_stats, summary_bucket>>

SummariesRequest(h, n) ==
    \/ SummariesRejectActive(h)
    \/ SummariesRejectNoSession(h)
    \/ CanSummarize(n) /\ SummariesAccept(h)
    \/ SummariesClear(h)
    \/ SummariesReset(h)
    \/ SummariesActivate(h)
    \/ SummariesLaunch(h)

SumWorker(w, listing) ==
    \/ SumStart(w)
    \/ \E o \in SetupOutcomes : SumSetup(w, o)
    \/ SumPaginateRaises(w)
    \/ \E o \in SumOutcomes : SumObject(w, listing, o)
    \/ SumComplete(w, listing)
    \/ SumExcept(w)
    \/ SumFinally(w)

NextSummarize ==
    \/ \E h \in Handlers : SummariesRequest(h, MaxRuns)
    \/ \E w \in SumWorkers : SumWorker(w, ShortListing)

SpecSummarize == Init /\ [][NextSummarize]_vars

(***************************************************************************)
(* The three kinds together, requests handled one at a time, one job of    *)
(* each kind.                                                              *)
(***************************************************************************)
NextKinds ==
    \/ ScrapeRequest(1, 1, {1})
    \/ ScrapeWorker(1, MaxLines, {"SAVED: a_article.json"})
    \/ \E rc \in ExitCodes : ProcExit(1, rc)
    \/ ConvertRequest(1, 1)
    \/ ConvWorker(1, ShortListing)
    \/ SummariesRequest(1, 1)
    \/ SumWorker(1, ShortListing)

SpecKinds == Init /\ [][NextKinds]_vars

(***************************************************************************)
(* Post-processing with start requests handled concurrently; a behaviour   *)
(* runs conversions or summarizations (the kinds share no state).          *)
(***************************************************************************)
ConvQuiet ==
    /\ \A w \in ConvWorkers : conv_workers[w].pc = "unborn"
    /\ ConvStartsPending = 0

SumQuiet ==
    /\ \A w \in SumWorkers : sum_workers[w].pc = "unborn"
    /\ SumStartsPending = 0

NextPost ==
    \/ SumQuiet /\ NextConvert
    \/ ConvQuiet /\ NextSummarize

SpecPost == Init /\ [][NextPost]_vars

(***************************************************************************)
(* One scrape job reading the lines of StatLines.                           *)
(***************************************************************************)
NextStats ==
    \/ ScrapeRequest(1, 1, {0, 1, 3})
    \/ ScrapeWorker(1, MaxStatLines, StatLines)
    \/ \E rc \in ExitCodes : ProcExit(1, rc)

SpecStats == Init /\ [][NextStats]_vars

(***************************************************************************)
(* add_log, add_conversion_log, add_summarization_log (lines 63-85) called *)
(* by threads of one kind at a time, statement by statement.  The message  *)
(* of a call is its number.                                                *)
(***************************************************************************)
LogKinds == {"scrape", "convert", "summarize"}

Cap(kind) ==
    CASE kind = "scrape" -> ScrapeLogCap
      [] kind = "convert" -> ConvertLogCap
      [] OTHER -> SummarizeLogCap

Buffer(kind) ==
    CASE kind = "scrape" -> all_logs
      [] kind = "convert" -> conversion_logs
      [] OTHER -> summarization_logs

\* lines 64-67, 72-75, 80-83: the entry is appended
AddLogAppend(c, kind, log_type) ==
    /\ callers[c].pc = "idle"
    /\ callers' = [callers EXCEPT ![c] = [pc |-> "appended", kind |-> kind]]
    /\ log_calls' = log_calls + 1
    /\ LET entry == LogEntry(log_calls + 1, log_type)
       IN  /\ all_logs' = IF kind = "scrape"
                          THEN LogAppend(all_logs, entry) ELSE all_logs
           /\ conversion_logs' = IF kind = "convert"
                                 THEN LogAppend(conversion_logs, entry)
                                 ELSE conversion_logs
           /\ summarization_logs' = IF kind = "summarize"
                                    THEN LogAppend(summarization_logs, entry)
                                    ELSE summarization_logs
    /\ UNCHANGED <<now, listed, handlers, scraping_active, current_job, scraping_stats, jobs,
                   workers, procs, conversion_active, conversion_stats, conv_workers,
                   text_bucket, summarization_active, summarization_stats,
                   sum_workers, summary_bucket>>

\* lines 68-69, 76-77, 84-85: the oldest entry is dropped, and the call returns
AddLogTrim(c) ==
    /\ callers[c].pc = "appended"
    /\ callers' = [callers EXCEPT ![c] = NoCaller]
    /\ LET kind == callers[c].kind
       IN  /\ all_logs' = IF kind = "scrape"
                          THEN LogTrim(all_logs, ScrapeLogCap) ELSE all_logs
           /\ conversion_logs' = IF kind = "convert"
                                 THEN LogTrim(conversion_logs, ConvertLogCap)
                                 ELSE conversion_logs
           /\ summarization_logs' = IF kind = "summarize"
                                    THEN LogTrim(summarization_logs, SummarizeLogCap)
                                    ELSE summarization_logs
    /\ UNCHANGED <<now, listed, log_calls, handlers, scraping_active, current_job,
                   scraping_stats, jobs, workers, procs, conversion_active,
                   conversion_stats, conv_workers, text_bucket, summarization_active,
                   summarization_stats, sum_workers, summary_bucket>>

\* the buffers of the other kinds are empty
OnlyKind(kind) == \A k \in LogKinds \ {kind} : Buffer(k) = << >>

NextLogs ==
    \/ \E c \in Callers, kind \in LogKinds :
           /\ OnlyKind(kind)
           /\ log_calls < Cap(kind) + MaxOverflow
           /\ AddLogAppend(c, kind, "info")
    \/ \E c \in Callers : AddLogTrim(c)

SpecLogs == Init /\ [][NextLogs]_vars

(***************************************************************************)
(* Properties.                                                             *)
(***************************************************************************)
Running(w) == workers[w].pc \notin {"unborn", "done"}
ConvRunning(w) == conv_workers[w].pc \notin {"unborn", "done"}
SumRunning(w) == sum_workers[w].pc \notin {"unborn", "done"}

\* C1: at most one thread is inside LocalScrapingJob._run_scraping at any time.
\* Violated: stop_scraping clears scraping_active (line 400) while the stopped
\* worker is still running, and the next start_scraping starts a second one.
OneScrapeWorker == Cardinality({w \in Workers : Running(w)}) <= 1

\* C2: at most one thread is inside _run_conversion and at most one inside
\* _run_summarization at any time.  Violated: two requests pass the check of the
\* active flag (lines 472, 498) before either sets it (lines 483, 512).
OnePostWorkerPerKind ==
    /\ Cardinality({w \in ConvWorkers : ConvRunning(w)}) <= 1
    /\ Cardinality({w \in SumWorkers : SumRunning(w)}) <= 1

\* the first step of the handler of a start request
StartScrapingFirst(h) ==
    \/ StartScrapingRejectActive(h)
    \/ StartScrapingRejectNoUrl(h)
    \/ \E m \in {0, 1, 3} : StartScrapingAccept(h, m)

ConvertFirst(h) ==
    ConvertRejectActive(h) \/ ConvertRejectNoSession(h) \/ ConvertAccept(h)

SummariesFirst(h) ==
    SummariesRejectActive(h) \/ SummariesRejectNoSession(h) \/ SummariesAccept(h)

Rejected(h, body) ==
    /\ handlers'[h].pc = "idle"
    /\ handlers'[h].resp = [status |-> 400, body |-> body]

\* C3: a start request handled while the active flag of its kind is True is
\* answered 400 with an error body, starts no worker (the handler is idle again
\* and no thread is created) and leaves the flag, the log buffer and the
\* statistics of the kind as they were.
RejectedWhileActive ==
    [][\A h \in Handlers :
          /\ (scraping_active /\ StartScrapingFirst(h)) =>
                 /\ Rejected(h, "Scraping already in progress")
                 /\ UNCHANGED <<scraping_active, all_logs, scraping_stats, workers,
                                jobs, current_job>>
          /\ (conversion_active /\ ConvertFirst(h)) =>
                 /\ Rejected(h, "Conversion already in progress")
                 /\ UNCHANGED <<conversion_active, conversion_logs, conversion_stats,
                                conv_workers>>
          /\ (summarization_active /\ SummariesFirst(h)) =>
                 /\ Rejected(h, "Summarization already in progress")
                 /\ UNCHANGED <<summarization_active, summarization_logs,
                                summarization_stats, sum_workers>>]_vars

\* C3, witness: a start_scraping request was rejected while the job's worker runs
\* and has logged and updated the statistics.
RejectedWhileActiveWitness ==
    \E h \in Handlers :
        /\ handlers[h].resp = [status |-> 400, body |-> "Scraping already in progress"]
        /\ scraping_active
        /\ \E w \in Workers : Running(w)
        /\ Len(all_logs) > 0
        /\ scraping_stats.progress > 0

LastIsError(logs) == Len(logs) > 0 /\ logs[Len(logs)].type = "error"

\* C4: when a worker exits, the active flag of its kind is False; when its
\* except clause has run, an error entry has been appended to the kind's log
\* and, for convert and summarize, 'error' is set and 'completed' is False.
\* Violated for convert and summarize: of two workers started by concurrent
\* requests (C2), one completes (line 130, 227) and the other raises.
WorkerExitPaths ==
    [][/\ \A w \in Workers :
             /\ (workers[w].pc # "done" /\ workers'[w].pc = "done") =>
                    ~scraping_active'
             /\ (workers[w].pc = "except" /\ workers'[w].pc # "except") =>
                    LastIsError(all_logs')
       /\ \A w \in ConvWorkers :
             /\ (conv_workers[w].pc # "done" /\ conv_workers'[w].pc = "done") =>
                    ~conversion_active'
             /\ (conv_workers[w].pc = "except" /\ conv_workers'[w].pc # "except") =>
                    /\ LastIsError(conversion_logs')
                    /\ conversion_stats'.error # NoError
                    /\ ~conversion_stats'.completed
       /\ \A w \in SumWorkers :
             /\ (sum_workers[w].pc # "done" /\ sum_workers'[w].pc = "done") =>
                    ~summarization_active'
             /\ (sum_workers[w].pc = "except" /\ sum_workers'[w].pc # "except") =>
                    /\ LastIsError(summarization_logs')
                    /\ summarization_stats'.error # NoError
                    /\ ~summarization_stats'.completed]_vars

(***************************************************************************)
(* One request thread and one scrape job, with the scheduling of threads:  *)
(* a thread that can take its next step takes it.  Nothing makes a request *)
(* arrive, the subprocess write a line, or the subprocess end on its own.  *)
(***************************************************************************)
\* the steps of a request thread after the request has been read
HandlerStep(h) ==
    \/ StartScrapingReset(h)
    \/ StartScrapingClear(h)
    \/ StartScrapingActivate(h)
    \/ StartScrapingCreate(h)
    \/ StartScrapingLaunch(h)
    \/ StopFlag(h)
    \/ \E forced \in BOOLEAN : StopTerminate(h, forced)
    \/ StopClear(h)

\* the steps of the worker that do not wait for a line of the subprocess
WorkerStep(w) ==
    \/ RunStart(w)
    \/ RunAnnounce(w)
    \/ RunPopen(w)
    \/ RunReadEOF(w)
    \/ RunProcessLine(w)
    \/ RunWait(w)
    \/ RunCheck(w)
    \/ RunSuccess(w)
    \/ RunFailure(w)
    \/ RunExcept(w)
    \/ RunFinally(w)

NextStop ==
    \/ ScrapeRequest(1, 1, {1})
    \/ ScrapeWorker(1, MaxLines, {"SAVED: a_article.json"})
    \/ \E rc \in ExitCodes : ProcExit(1, rc)

SpecStop ==
    /\ Init
    /\ [][NextStop]_vars
    /\ WF_vars(HandlerStep(1))
    /\ WF_vars(WorkerStep(1))

\* LocalScrapingJob.stop has returned for the job of worker w, which is running
StopHandled(w) ==
    /\ Running(w)
    /\ \E h \in Handlers :
          handlers[h].pc = "stop_clear" /\ handlers[h].job = workers[w].job

\* the worker thread has exited and no subprocess of the job is running
StoppedJob(w) == workers[w].pc = "done" /\ procs[w].state # "running"

\* C5: whenever stop_scraping is handled while the worker of a scrape job is
\* running, the subprocess of the job is eventually terminated and the worker
\* eventually exits.  Violated: stop() before line 286 finds self.process None
\* and terminates nothing; the worker then launches the subprocess and waits
\* for it (line 298 or 307) for as long as it runs.
StopEndsJob == \A w \in Workers : StopHandled(w) ~> StoppedJob(w)

(***************************************************************************)
(* The statistics of one scrape job (SpecStats).                           *)
(***************************************************************************)
\* worker w is in the loop of lines 298-305
InLoop(w) == workers[w].pc \in {"read", "process"}

\* this step is the call of _update_stats_from_log by worker w (lines 301-305)
ProcessesLine(w) == workers[w].pc = "process" /\ workers'[w].pc # "process"

\* the line worker w is about to process
LineOf(w) == Strip(LineChars(workers[w].line))

MaxArticlesOf(w) == jobs[workers[w].job].max_articles

LastLogged(l) == Len(all_logs) > 0 /\ all_logs[Len(all_logs)].message = l

\* C6: while the worker of a job with max_articles >= 1 is in its loop over
\* the lines of the subprocess, no step decreases scraping_stats['progress'].
ProgressMonotone ==
    [][\A w \in Workers :
          (InLoop(w) /\ MaxArticlesOf(w) >= 1) =>
              scraping_stats'.progress >= scraping_stats.progress]_vars

\* an article-only line has been processed after an image line and a line
\* with COMPLETE: its band (36) is below the progress already reached
ProgressMonotoneWitness ==
    /\ workers[1].pc = "read"
    /\ workers[1].nlines = 3
    /\ jobs[1].max_articles = 3
    /\ scraping_stats.articlesFound = 1
    /\ scraping_stats.imagesFound = 1
    /\ scraping_stats.progress = 100
    /\ LastLogged("SAVED: a_article.json")

\* this step is the return of a call of add_log / add_conversion_log /
\* add_summarization_log on the buffer of kind k
Returns(c, k) ==
    callers[c].pc = "appended" /\ callers[c].kind = k /\ callers'[c].pc = "idle"

\* C7: once a call of add_log / add_conversion_log / add_summarization_log
\* has returned, the buffer holds at most 500 / 200 / 300 entries, also when
\* several threads append to the same buffer.  Violated: each call drops at
\* most one entry (lines 68-69), so two appends before the first trim leave
\* cap + 1 entries when the first call returns.
BufferBoundedOnReturn ==
    [][\A c \in Callers, k \in LogKinds :
          Returns(c, k) => Len(Buffer(k)') <= Cap(k)]_vars

(***************************************************************************)
(* The three kinds side by side (SpecKinds).                               *)
(***************************************************************************)
\* the active flag, the log buffer and the statistics record of each kind
ScrapeRecord == <<scraping_active, all_logs, scraping_stats>>
ConvRecord == <<conversion_active, conversion_logs, conversion_stats>>
SumRecord == <<summarization_active, summarization_logs, summarization_stats>>

\* the positions of a request thread inside the handlers of each kind
ScrapePcs ==
    {"reset", "clear", "activate", "create", "launch", "stop_flag", "stop_term",
     "stop_clear"}
ConvPcs == {"c_clear", "c_reset", "c_activate", "c_launch"}
SumPcs == {"s_clear", "s_reset", "s_activate", "s_launch"}

\* request thread h takes a step inside a handler with positions pcs, or
\* answers at once with one of bodies
HandlerMoves(h, pcs, bodies) ==
    /\ handlers'[h] # handlers[h]
    /\ \/ handlers[h].pc \in pcs
       \/ handlers'[h].pc \in pcs
       \/ /\ handlers[h].pc = "idle"
          /\ handlers'[h].pc = "idle"
          /\ handlers'[h].resp.body \in bodies

\* the steps of each kind: its requests, its worker, its subprocess
ScrapeKindStep ==
    \/ workers' # workers
    \/ procs' # procs
    \/ \E h \in Handlers :
          HandlerMoves(h, ScrapePcs, {"Scraping already in progress", "URL is required"})

ConvKindStep ==
    \/ conv_workers' # conv_workers
    \/ \E h \in Handlers :
          HandlerMoves(h, ConvPcs, {"Conversion already in progress",
                                    "sourceSession is required"})

SumKindStep ==
    \/ sum_workers' # sum_workers
    \/ \E h \in Handlers :
          HandlerMoves(h, SumPcs, {"Summarization already in progress",
                                   "sourceSession is required"})

\* request thread h answers 400 with body in this step
Rejects(h, body) ==
    handlers[h].pc = "idle" /\ handlers'[h] # handlers[h] /\ Rejected(h, body)

\* C8: every step of one kind (start request, stop request, worker step with
\* its log appends) leaves the active flag, the log buffer and the statistics
\* record of the two other kinds unchanged, and a start request is answered
\* 'already in progress' only when the flag of its own kind is True.
KindsIndependent ==
    [][/\ ScrapeKindStep => UNCHANGED <<ConvRecord, SumRecord>>
       /\ ConvKindStep => UNCHANGED <<ScrapeRecord, SumRecord>>
       /\ SumKindStep => UNCHANGED <<ScrapeRecord, ConvRecord>>
       /\ \A h \in Handlers :
             /\ Rejects(h, "Scraping already in progress") => scraping_active
             /\ Rejects(h, "Conversion already in progress") => conversion_active
             /\ Rejects(h, "Summarization already in progress") =>
                    summarization_active]_vars

\* the three kinds are active at once, each worker running and having logged
KindsIndependentWitness ==
    /\ scraping_active /\ conversion_active /\ summarization_active
    /\ Running(1) /\ ConvRunning(1) /\ SumRunning(1)
    /\ Len(all_logs) > 0 /\ Len(conversion_logs) > 0 /\ Len(summarization_logs) > 0

(***************************************************************************)
(* The bands of the progress value and the counters (SpecStats).           *)
(***************************************************************************)
\* int(min(base + span * found / n, top)) for n >= 1
Floor(base, span, top, found, n) == Min(base + ((span * found) \div n), top)

\* the processing of an article line by a job with max_articles >= 1
ArticleBand(w) ==
    (ProcessesLine(w) /\ MaxArticlesOf(w) >= 1 /\ IsArticleLine(LineOf(w))) =>
        /\ scraping_stats'.progress >=
               Floor(15, 65, 80, scraping_stats'.articlesFound, MaxArticlesOf(w))
        /\ (~IsImageLine(LineOf(w)) /\ ~IsCompleteLine(LineOf(w))) =>
               scraping_stats'.progress <= Max(scraping_stats.progress, 80)

\* the processing of an image line by a job with max_articles >= 1
ImageBand(w) ==
    (ProcessesLine(w) /\ MaxArticlesOf(w) >= 1 /\ IsImageLine(LineOf(w))) =>
        /\ scraping_stats'.progress >=
               Floor(80, 15, 95, scraping_stats'.imagesFound, MaxArticlesOf(w))
        /\ ~IsCompleteLine(LineOf(w)) =>
               scraping_stats'.progress <= Max(scraping_stats.progress, 95)

\* progress becomes 100 in this step
Becomes100 == scraping_stats.progress # 100 /\ scraping_stats'.progress = 100

\* C9: the worker sets progress to 10 at its start and to 15 before it
\* launches the subprocess; with max_articles = N >= 1 an article line with k
\* articles found raises progress to at least int(min(15 + 65*k/N, 80)) and
\* alone not above 80, an image line with m images found to at least
\* int(min(80 + 15*m/N, 95)) and alone not above 95; progress becomes 100
\* only on a line containing COMPLETE or at the successful end of the job;
\* and 0 <= progress <= 100 in every state.
ProgressBands ==
    /\ [](scraping_stats.progress \in 0 .. 100)
    /\ [][\A w \in Workers :
             /\ (At(w, "start") /\ ~At(w, "start")') => scraping_stats'.progress = 10
             /\ (At(w, "announce") /\ At(w, "popen")') => scraping_stats'.progress = 15
             /\ ArticleBand(w)
             /\ ImageBand(w)]_vars
    /\ [][Becomes100 =>
             \E w \in Workers :
                \/ ProcessesLine(w) /\ IsCompleteLine(LineOf(w))
                \/ At(w, "success") /\ At(w, "finally")']_vars

\* with max_articles = 3: the first article line has raised progress from 15
\* to 36, the image line to 85, the second article line has left it there
ProgressBandsWitness ==
    /\ workers[1].pc = "read"
    /\ workers[1].nlines = 3
    /\ jobs[1].max_articles = 3
    /\ scraping_stats.articlesFound = 2
    /\ scraping_stats.imagesFound = 1
    /\ scraping_stats.progress = 85
    /\ LastLogged("SAVED: a_article.json")

Count(b) == IF b THEN 1 ELSE 0

\* C10: each processed line with 'SAVED:' and 'article.json' adds exactly 1 to
\* articlesFound, each processed line with 'SUCCESS: Saved' and 'image.jpg'
\* exactly 1 to imagesFound, no other line changes a counter, and
\* articlesSaved = articlesFound in every state.  Violated with
\* maxArticles = 0: line 342 raises ZeroDivisionError before line 347 is
\* reached, so a line with both pairs of markers leaves imagesFound as it was.
CountersFollowLines ==
    /\ [](scraping_stats.articlesSaved = scraping_stats.articlesFound)
    /\ [][\A w \in Workers :
             ProcessesLine(w) =>
                 /\ scraping_stats'.articlesFound =
                        scraping_stats.articlesFound + Count(IsArticleLine(LineOf(w)))
                 /\ scraping_stats'.imagesFound =
                        scraping_stats.imagesFound + Count(IsImageLine(LineOf(w)))]_vars

(***************************************************************************)
(* One scrape job reading one line of ClassifyLines.                       *)
(***************************************************************************)
NextClassify ==
    \/ ScrapeRequest(1, 1, {1})
    \/ ScrapeWorker(1, MaxLines, ClassifyLines)
    \/ \E rc \in ExitCodes : ProcExit(1, rc)

SpecClassify == Init /\ [][NextClassify]_vars

\* one of words occurs in line, in any case
HasAny(line, words) == \E k \in words : Contains(Lower(line), k)

\* the tag of a line by the precedence error, success, warning, info
TagOf(line) ==
    CASE HasAny(line, ErrorWords) -> "error"
      [] ~HasAny(line, ErrorWords) /\ HasAny(line, SuccessWords) -> "success"
      [] ~HasAny(line, ErrorWords) /\ ~HasAny(line, SuccessWords)
             /\ HasAny(line, WarningWords) -> "warning"
      [] OTHER -> "info"

\* C11: _classify_log_line returns 'error' for a line with error, failed or
\* exception in any case, else 'success' for one with success, saved or
\* complete, else 'warning' for one with warning or filtered, else 'info':
\* every line the worker logs carries that tag.
ClassifiedByPrecedence ==
    [][\A w \in Workers :
          (ProcessesLine(w) /\ LineOf(w) # << >>) =>
              /\ Len(all_logs') = Len(all_logs) + 1
              /\ all_logs'[Len(all_logs')] =
                     [message |-> workers[w].line, type |-> TagOf(LineOf(w))]]_vars

\* a line with an error keyword and a success keyword was logged as 'error'
ClassifiedByPrecedenceWitness ==
    /\ Len(all_logs) > 0
    /\ all_logs[Len(all_logs)] =
           [message |-> "ERROR: SAVED: article.json failed", type |-> "error"]

(***************************************************************************)
(* POST /list_bucket (lines 411-447).  Keys are sequences of characters;   *)
(* the answer of list_objects_v2 is drawn from listings below the prefix.  *)
(***************************************************************************)
MaxListed == 2

Slash == "/"

\* s[n:]
DropFirst(s, n) == SubSeq(s, n + 1, Len(s))

\* s.rstrip('/')
RStripSlash(s) ==
    IF \A i \in 1 .. Len(s) : s[i] = Slash
    THEN << >>
    ELSE SubSeq(s, 1, CHOOSE i \in 1 .. Len(s) :
                          /\ s[i] # Slash
                          /\ \A k \in (i + 1) .. Len(s) : s[k] = Slash)

\* lines 419-420
NormalisePrefix(prefix) ==
    IF prefix # << >> /\ prefix[Len(prefix)] # Slash
    THEN Append(prefix, Slash) ELSE prefix

\* lines 427-429
ListFolders(prefix, cps) ==
    [i \in 1 .. Len(cps) |->
        [name |-> RStripSlash(DropFirst(cps[i], Len(prefix)))]]

\* lines 431-436 without the test of line 433
IsListedFileNoSkip(prefix, key) ==
    ~Contains(DropFirst(key, Len(prefix)), <<Slash>>)

\* lines 431-436: the object is kept
IsListedFile(prefix, key) ==
    key # prefix /\ ~Contains(DropFirst(key, Len(prefix)), <<Slash>>)

KeptKeys(prefix, contents) ==
    SelectSeq(contents, LAMBDA key : IsListedFile(prefix, key))

\* lines 431-442 (size and lastModified are copied from the object)
ListFiles(prefix, contents) ==
    LET kept == KeptKeys(prefix, contents)
    IN  [i \in 1 .. Len(kept) |->
            [name |-> DropFirst(kept[i], Len(prefix)), key |-> kept[i]]]

\* the request prefixes, and what follows the prefix in the common prefixes
\* and in the keys of a listing
RequestPrefixes == { << >>, <<"s">>, <<"s", "/">> }
FolderRests == { <<"d", "/">>, <<"a", "/">> }
ObjectRests == { << >>, <<"a">>, <<"d", "/", "b">> }

SeqsUpTo(S, n) == UNION {[1 .. k -> S] : k \in 0 .. n}

\* lines 412-444: the listing is answered
ListBucket(h, prefix, cp_rests, object_rests) ==
    /\ handlers[h].pc = "idle"
    /\ LET p == NormalisePrefix(prefix)
           cps == [i \in 1 .. Len(cp_rests) |-> p \o cp_rests[i]]
           contents == [i \in 1 .. Len(object_rests) |-> p \o object_rests[i]]
       IN  listed' = [answered |-> TRUE, prefix |-> p, CommonPrefixes |-> cps,
                      Contents |-> contents, folders |-> ListFolders(p, cps),
                      files |-> ListFiles(p, contents)]
    /\ Respond(h, 200, "listing")
    /\ UNCHANGED <<now, callers, log_calls, scrapeVars, convVars, sumVars>>

\* lines 445-446: boto3 raises
ListBucketRaises(h) ==
    /\ handlers[h].pc = "idle"
    /\ Respond(h, 500, "exception")
    /\ UNCHANGED <<envVars, scrapeVars, convVars, sumVars>>

NextList ==
    \E h \in {1} :
        \/ \E prefix \in RequestPrefixes,
              cp_rests \in SeqsUpTo(FolderRests, MaxListed),
              object_rests \in SeqsUpTo(ObjectRests, MaxListed) :
                  ListBucket(h, prefix, cp_rests, object_rests)
        \/ ListBucketRaises(h)

SpecList == Init /\ [][NextList]_vars

\* the number of places of seq that hold x
Occurrences(seq, x) == Cardinality({i \in 1 .. Len(seq) : seq[i] = x})

\* what follows the prefix in key
RestOf(key) == SubSeq(key, Len(listed.prefix) + 1, Len(key))

\* key has the prefix, one more level at most, and is not the prefix itself
OneLevelBelow(key) ==
    key # listed.prefix /\ \A i \in 1 .. Len(RestOf(key)) : RestOf(key)[i] # Slash

\* C12: in an answer of list_bucket every common prefix gives one folder,
\* named by the common prefix without the prefix and the trailing '/'; every
\* object one level below the prefix gives one file with key = prefix + name;
\* the prefix key and deeper objects give no file; and no key of a file is
\* the common prefix of a folder.
ListingPartitioned ==
    listed.answered =>
        /\ Len(listed.folders) = Len(listed.CommonPrefixes)
        /\ \A i \in 1 .. Len(listed.folders) :
              listed.prefix \o listed.folders[i].name \o <<Slash>>
                  = listed.CommonPrefixes[i]
        /\ \A i \in 1 .. Len(listed.Contents) :
              LET key == listed.Contents[i]
                  n == Cardinality({j \in 1 .. Len(listed.files) :
                                        listed.files[j].key = key})
              IN  n = IF OneLevelBelow(key)
                      THEN Occurrences(listed.Contents, key) ELSE 0
        /\ \A j \in 1 .. Len(listed.files) :
              /\ listed.files[j].key = listed.prefix \o listed.files[j].name
              /\ Occurrences(listed.Contents, listed.files[j].key) > 0
              /\ \A i \in 1 .. Len(listed.folders) :
                    listed.files[j].key # listed.CommonPrefixes[i]

\* prefix 's' became 's/'; the listing held a folder, the prefix key and a
\* deeper object next to nothing else: one folder 'd' and no file
ListingPartitionedWitness ==
    /\ listed.answered
    /\ listed.prefix = <<"s", "/">>
    /\ listed.CommonPrefixes = << <<"s", "/", "d", "/">> >>
    /\ listed.Contents = << <<"s", "/">>, <<"s", "/", "d", "/", "b">> >>
    /\ listed.folders = << [name |-> <<"d">>] >>
    /\ listed.files = << >>

\* a job created after the job of worker w: start_scraping has accepted it
Superseded(w) ==
    \E j \in Jobs : j > workers[w].job /\ jobs[j].created

\* this step is a step of the running worker w
WorkerMoves(w) == Running(w) /\ workers'[w] # workers[w]

\* C13: once start_scraping has accepted a later job, no step of the worker
\* of an earlier job changes scraping_active, scraping_stats or all_logs.
\* Violated: the stopped worker still runs lines 315-316 and 321-323 (C1).
StoppedWorkerSilent ==
    [][\A w \in Workers :
          (WorkerMoves(w) /\ Superseded(w)) =>
              UNCHANGED <<scraping_active, scraping_stats, all_logs>>]_vars

\* C14: in every state where a scrape worker has exited, the subprocess it
\* launched is no longer running.  Violated: an exception raised in the loop
\* over the lines (line 342 with max_articles = 0) leads to lines 318-323,
\* which neither wait for the subprocess nor terminate it.
NoOrphanSubprocess ==
    \A w \in Workers : workers[w].pc = "done" => procs[w].state # "running"

\* the job reports success: lines 310 and 313
ReportsSuccess ==
    \/ scraping_stats.completed
    \/ \E i \in 1 .. Len(all_logs) :
          all_logs[i].message = "Scraping completed successfully!"

\* With one request thread and one job (SpecStop): the last request answered
\* is a stop_scraping, handled while the worker of the job was running, and
\* the job has not reported success.
StopReturned ==
    /\ handlers[1].pc = "idle"
    /\ handlers[1].resp = [status |-> 200, body |-> "stopped"]
    /\ Running(1)
    /\ ~ReportsSuccess

\* C15: after stop_scraping has returned for a job, the worker of the job
\* never sets completed to True nor logs 'Scraping completed successfully!'.
\* Violated: the worker evaluates line 309 (exit code 0, is_running True),
\* the stop request is handled from line 253 to its answer, and the worker
\* then executes lines 310-313.
NoSuccessAfterStop == [](StopReturned => [](~ReportsSuccess))

\* the subprocess of worker w ended with exit code 0 and the job of w has
\* not been stopped (is_running is still True)
EndedWell(w) ==
    /\ procs[jobs[workers[w].job].process].returncode = 0
    /\ jobs[workers[w].job].is_running

\* worker w goes from position pc to the finally clause in this step
Leaves(w, pc) == At(w, pc) /\ At(w, "finally")'

\* C16: after the wait for the subprocess the worker sets completed = True
\* and progress = 100 if and only if the exit code is 0 and the job has not
\* been stopped; otherwise (non-zero exit, stopped, exception) it sets
\* progress = 0, leaves completed False and appends an error entry.
\* Violated: the job can be stopped between the test of line 309 and the
\* writes of lines 310-313 (C15).
SuccessOnlyIfEndedWell ==
    [][\A w \in Workers :
          /\ Leaves(w, "success") =>
                 /\ EndedWell(w)
                 /\ scraping_stats'.completed
                 /\ scraping_stats'.progress = 100
          /\ Leaves(w, "failure") =>
                 /\ ~EndedWell(w)
                 /\ scraping_stats'.progress = 0
                 /\ ~scraping_stats'.completed
                 /\ LastIsError(all_logs')
          /\ Leaves(w, "except") =>
                 /\ scraping_stats'.progress = 0
                 /\ ~scraping_stats'.completed
                 /\ LastIsError(all_logs')]_vars

\* request thread h starts the worker thread in this step (lines 387, 486, 515)
Launches(h, pc) == handlers[h].pc = pc /\ handlers'[h].pc = "idle"

\* C17: when the worker of an accepted start request is started, the log
\* buffer of the kind is empty, its statistics record has its initial
\* values and its active flag is True: nothing of an earlier run is left.
\* Violated: the worker of a stopped scrape job (C1), or the worker of a
\* racing request (C2), writes between the reset and the start of the thread.
CleanStatusAtLaunch ==
    [][\A h \in Handlers :
          /\ Launches(h, "launch") =>
                 /\ all_logs' = << >>
                 /\ scraping_stats' = InitStats
                 /\ scraping_active'
          /\ Launches(h, "c_launch") =>
                 /\ conversion_logs' = << >>
                 /\ conversion_stats' = ResetConversionStats
                 /\ conversion_active'
          /\ Launches(h, "s_launch") =>
                 /\ summarization_logs' = << >>
                 /\ summarization_stats' = InitSummarizationStats
                 /\ summarization_active']_vars

\* C18: a start request without url (start_scraping) or without
\* sourceSession (convert_to_text, generate_summaries) is answered 400,
\* starts no worker and leaves the active flag of the kind False and its log
\* buffer and statistics record as they were.  The two sourceSession
\* answers read the same, so such a step leaves both kinds as they were,
\* and the flag of one of them is False.
InvalidStartChangesNothing ==
    [][\A h \in Handlers :
          /\ Rejects(h, "URL is required") =>
                 /\ ~scraping_active'
                 /\ UNCHANGED <<ScrapeRecord, workers, jobs, current_job, procs>>
          /\ Rejects(h, "sourceSession is required") =>
                 /\ ~conversion_active' \/ ~summarization_active'
                 /\ UNCHANGED <<ConvRecord, SumRecord, conv_workers, sum_workers>>]_vars

\* a start_scraping request without url was answered 400 after a job had
\* completed: the log and the statistics of that job are still there
InvalidStartChangesNothingWitness ==
    \E h \in Handlers :
        /\ handlers[h].pc = "idle"
        /\ handlers[h].resp = [status |-> 400, body |-> "URL is required"]
        /\ ~scraping_active
        /\ scraping_stats.completed
        /\ scraping_stats.progress = 100
        /\ Len(all_logs) > 0

(***************************************************************************)
(* The log buffer of one kind filled by one thread, run after run.         *)
(***************************************************************************)
\* all_logs.clear() (lines 383, 481, 507) before the worker of a run starts
ClearLogs(kind) ==
    /\ \A c \in Callers : callers[c].pc = "idle"
    /\ Buffer(kind) # << >>
    /\ log_calls' = 0
    /\ all_logs' = IF kind = "scrape" THEN << >> ELSE all_logs
    /\ conversion_logs' = IF kind = "convert" THEN << >> ELSE conversion_logs
    /\ summarization_logs' = IF kind = "summarize" THEN << >> ELSE summarization_logs
    /\ UNCHANGED <<now, listed, callers, handlers, scraping_active, current_job,
                   scraping_stats, jobs, workers, procs, conversion_active,
                   conversion_stats, conv_workers, text_bucket, summarization_active,
                   summarization_stats, sum_workers, summary_bucket>>

NextFifo ==
    \/ \E kind \in LogKinds :
           /\ OnlyKind(kind)
           /\ log_calls < Cap(kind) + MaxOverflow
           /\ AddLogAppend(1, kind, "info")
    \/ AddLogTrim(1)
    \/ \E kind \in LogKinds : ClearLogs(kind)

SpecFifo == Init /\ [][NextFifo]_vars

\* buffer holds the entries log_calls - Len + 1 .. log_calls, oldest first
HoldsMostRecent(buffer, cap) ==
    /\ Len(buffer) = Min(log_calls, cap)
    /\ \A i \in 1 .. Len(buffer) :
          buffer[i].message = log_calls - Len(buffer) + i

\* C19: with one thread appending, after each call of add_log,
\* add_conversion_log or add_summarization_log the buffer holds the most
\* recent min(n, capacity) of the n entries of the run, in the order of
\* their appends.
BufferIsFifo ==
    (\A c \in Callers : callers[c].pc = "idle") =>
        \A k \in LogKinds :
            (Buffer(k) # << >> \/ OnlyKind(k)) => HoldsMostRecent(Buffer(k), Cap(k))

\* 502 entries were appended to all_logs: it holds the entries 3 .. 502
BufferIsFifoWitness ==
    /\ callers[1].pc = "idle"
    /\ log_calls = ScrapeLogCap + 2
    /\ Len(all_logs) = ScrapeLogCap
    /\ all_logs[1].message = 3
    /\ all_logs[ScrapeLogCap].message = ScrapeLogCap + 2

(***************************************************************************)
(* A conversion run over the listed keys.                                  *)
(***************************************************************************)
\* worker w handles the next listed key in this step (lines 100-127)
ConvHandlesKey(w) ==
    /\ ConvAt(w, "loop")
    /\ conv_workers'[w].idx = conv_workers[w].idx + 1

\* the entry appended to conversion_logs in this step, if any
ConvLogged(message, log_type) ==
    /\ Len(conversion_logs') = Len(conversion_logs) + 1
    /\ conversion_logs'[Len(conversion_logs')] = LogEntry(message, log_type)

\* worker w leaves the loop over the keys normally (lines 129-131)
ConvEndsRun(w) == ConvAt(w, "loop") /\ ConvAt(w, "finally")'

\* the failure of an object has been logged (line 127)
ObjectFailed ==
    \E i \in 1 .. Len(conversion_logs) :
        conversion_logs[i] = LogEntry("Error converting", "error")

\* C20: in a conversion run a key is handled in one of four ways, none of
\* which leaves the loop or touches the statistics: it is not a source
\* '.json' key and nothing is read or written; its text is written and
\* counted; it has no text and is skipped with a warning, not counted; or
\* reading, parsing or writing fails, which is logged as an error.  Such a
\* run ends with completed = True, error None and filesConverted equal to
\* the number of objects written.  Violated: the error field is shared with
\* a second run started by a racing request (C2), whose failure sets it.
ObjectFailureDoesNotAbort ==
    [][\A w \in ConvWorkers :
          /\ ConvHandlesKey(w) =>
                 /\ ConvAt(w, "loop")'
                 /\ UNCHANGED conversion_stats
                 /\ \/ /\ UNCHANGED <<conversion_logs, text_bucket>>
                       /\ UNCHANGED conv_workers[w].files_converted
                    \/ /\ ConvLogged("Converted", "success")
                       /\ conv_workers'[w].files_converted =
                              conv_workers[w].files_converted + 1
                    \/ /\ ConvLogged("Skipped", "warning")
                       /\ UNCHANGED text_bucket
                       /\ UNCHANGED conv_workers[w].files_converted
                    \/ /\ ConvLogged("Error converting", "error")
                       /\ UNCHANGED text_bucket
                       /\ UNCHANGED conv_workers[w].files_converted
          /\ (ConvEndsRun(w) /\ ObjectFailed) =>
                 /\ conversion_stats'.completed
                 /\ conversion_stats'.error = NoError
                 /\ conversion_stats'.filesConverted =
                        conv_workers[w].files_converted]_vars

(***************************************************************************)
(* Session ids.  `now' is the clock in whole seconds, int(time.time()), and  *)
(* Tick is the passage to the next second; any number of steps of the       *)
(* program fit between two ticks.                                           *)
(***************************************************************************)
\* f"session_{int(time.time())}" (line 245) as the S3 prefix of line 276
StoragePrefix(j) == <<"session_", jobs[j].session_id, "/">>

NextSession ==
    \/ ScrapeRequest(1, MaxJobs, {1})
    \/ \E w \in Workers : ScrapeWorker(w, MaxLines, {"SAVED: a_article.json"})
    \/ \E w \in Workers, rc \in ExitCodes : ProcExit(w, rc)
    \/ Tick

SpecSession == Init /\ [][NextSession]_vars

\* C21: any two scrape jobs accepted by start_scraping have distinct session
\* ids, so the output of two runs never goes under the same storage prefix.
DistinctSessionIds ==
    \A j1, j2 \in JobsCreated :
        j1 # j2 => /\ jobs[j1].session_id # jobs[j2].session_id
                   /\ StoragePrefix(j1) # StoragePrefix(j2)

====
